---- MODULE Spec2Model ----
(***************************************************************************)
(* The file-backed record stores of src/src/managers/CartManager.js:       *)
(* ProductManager (lines 131-299) and CartManager (lines 8-122).           *)
(*                                                                         *)
(* A JavaScript object is a TLA+ function from property names to values.   *)
(* A property that is absent and a property that holds `undefined` are the *)
(* same thing here: the name is not in the DOMAIN (JSON.stringify writes   *)
(* neither).  An array is a sequence.                                      *)
(***************************************************************************)
EXTENDS Integers, Sequences, FiniteSets, TLC

\* ---------------------------------------------------------------- bounds
\* successful addProduct calls in one behaviour
MaxProducts == 2
\* successful createCart calls in one behaviour
MaxCarts == 2
\* successful addProductToCart calls in one behaviour
MaxAdds == 2

VARIABLES
    products,            \* ProductManager.products, when it is an array
    productsIsArray,     \* Array.isArray(ProductManager.products)
    productsNextId,      \* ProductManager.nextId
    productsFile,        \* the file at ProductManager.path
    carts,               \* CartManager.carts, when it is an array
    cartsIsArray,        \* Array.isArray(CartManager.carts)
    cartsNextId,         \* CartManager.nextId
    cartsFile,           \* the file at CartManager.path
    cartsWrites,         \* writeFile calls of saveCarts still in flight
    cartsLoading,        \* how far CartManager.initialize has come
    dbCart,              \* the products of the cart document the routes work on
    tabs,                \* the browser tabs running public/js/cart.js on that cart
    last,                \* what the most recent call was and how it ended
    productsAssigned,    \* history: the id of every successful addProduct, oldest first
    productsDeleted,     \* history: the codes of the products deleteProduct removed
    productsReloadedAfterDelete, \* history: the store was re-constructed after a delete
    cartsAssigned,       \* history: the id of every cart createCart returned, oldest first
    cartsAdds,           \* history: number of successful addProductToCart calls
    added                \* history: per cart id and productId, what addProductToCart was asked to add

productVars == <<products, productsIsArray, productsNextId, productsFile,
                 productsAssigned, productsDeleted, productsReloadedAfterDelete>>
cartVars == <<carts, cartsIsArray, cartsNextId, cartsFile, cartsWrites,
              cartsAssigned, cartsAdds, added>>
\* what the calls on the two managers leave alone
otherVars == <<cartsLoading, dbCart, tabs>>
vars == <<products, productsIsArray, productsNextId, productsFile,
          carts, cartsIsArray, cartsNextId, cartsFile,
          cartsWrites, cartsLoading, dbCart, tabs, last, productsAssigned, productsDeleted,
          productsReloadedAfterDelete, cartsAssigned, cartsAdds, added>>

\* ------------------------------------------------------------ the files
\* A file that readFile + JSON.parse turn into an array, one they fail on
\* (no such file, or content that does not parse), and one that holds the
\* JSON text {}: it parses, to an object that is not an array.
FileOf(records) == [readable |-> TRUE, data |-> records]
NoFile == [readable |-> FALSE, data |-> <<>>]
ObjectFile == [readable |-> TRUE, data |-> <<>>, object |-> TRUE]
\* the same file when writeFile on it is refused (permission denied)
ReadOnly(file) ==
    [f \in DOMAIN file \cup {"readonly"} |-> IF f = "readonly" THEN TRUE ELSE file[f]]
WriteFails(file) == "readonly" \in DOMAIN file
\* the file after writeFile(content) has settled
Written(file, content) == IF WriteFails(file) THEN file ELSE content
ParsesToArray(file) == file.readable /\ "object" \notin DOMAIN file
ParsesToObject(file) == file.readable /\ "object" \in DOMAIN file

\* lines 45-52 and 166-173: what initialize leaves in the collection and in
\* nextId.  It reads the id of the last record, wherever the largest one is.
LoadedFrom(file) == IF ParsesToArray(file) THEN file.data ELSE <<>>
NextIdAfter(loaded) == IF Len(loaded) > 0 THEN loaded[Len(loaded)].id + 1 ELSE 1

\* ------------------------------------------------------------ the calls
NoError == "none"
MissingFieldsError == "Missing fields"
DuplicateCodeError == "Product with the same code already exists."
ProductNotFoundError == "Product not found"
\* line 100 builds its message from `id`, a name that is not in scope
CartNotFoundError == "ReferenceError: id is not defined"
\* what a refused writeFile rejects with
WriteError == "EACCES: permission denied"
\* the outcome of a call whose last step is an awaited save
AfterSave(file) == IF WriteFails(file) THEN WriteError ELSE NoError
\* push, some, find or findIndex called on a collection that is not an array
NotAFunctionError == "TypeError: is not a function"

\* op: the method; id: the id it was given (for a create, the id it assigned;
\* 0 when there is none); arg: its other argument (<<>> when there is none);
\* error: what it threw; missing: the fields a validation error lists;
\* returned: the value it resolved to, <<v>> for a value v and <<>> for undefined
NoArg == <<>>
Call(op, id, arg, error, missing) ==
    [op |-> op, id |-> id, arg |-> arg, error |-> error, missing |-> missing,
     returned |-> <<>>]
Returning(call, value) == [call EXCEPT !.returned = <<value>>]

\* ===================================================== ProductManager
requiredFields == <<"title", "description", "price", "category", "code", "stock">>
NumberFields == {"price", "stock"}
AllFields == {"title", "description", "code", "price", "status", "stock", "category", "thumbnails"}

\* !value, for the strings and numbers the fields hold
Falsy(field, value) == IF field \in NumberFields THEN value = 0 ELSE value = ""

\* !product[field]
FieldIsMissing(product, field) ==
    \/ field \notin DOMAIN product
    \/ Falsy(field, product[field])

\* a validation that takes a field for missing only when it is absent
validateProductFieldsAbsentOnly(product) ==
    SelectSeq(requiredFields, LAMBDA f: f \notin DOMAIN product)

\* The fields the thrown message lists; <<>> when nothing is thrown.
validateProductFields(product) ==
    SelectSeq(requiredFields, LAMBDA f: FieldIsMissing(product, f))

\* TRUE when the duplicate-code error is thrown.
validateDuplicateCode(code) ==
    \E i \in 1..Len(products) : products[i].code = code

\* new Product(id, title, description, code, price, status, stock, category, thumbnails)
Product(id, input) ==
    [f \in {"id"} \cup (DOMAIN input \cap AllFields) |-> IF f = "id" THEN id ELSE input[f]]

\* JSON.stringify(this.products) then writeFile, awaited by the caller
saveProducts(records) == FileOf(records)

\* Array.prototype.findIndex(product => product.id === id); 0 stands for -1
findIndex(records, id) ==
    IF \E i \in 1..Len(records) : records[i].id = id
    THEN CHOOSE i \in 1..Len(records) :
            /\ records[i].id = id
            /\ \A j \in 1..(i - 1) : records[j].id # id
    ELSE 0

\* { ...updatedFields, ...record }: the spread the other way round
SpreadRecordLast(record, updatedFields) ==
    [f \in DOMAIN record \cup DOMAIN updatedFields |->
        IF f \in DOMAIN record THEN record[f] ELSE updatedFields[f]]

\* { ...record, ...updatedFields }
Spread(record, updatedFields) ==
    [f \in DOMAIN record \cup DOMAIN updatedFields |->
        IF f \in DOMAIN updatedFields THEN updatedFields[f] ELSE record[f]]

\* Array.prototype.splice(index, 1)
Splice(records, index) ==
    SubSeq(records, 1, index - 1) \o SubSeq(records, index + 1, Len(records))

\* What getProductById(id) gives its caller.
getProductById(id) ==
    LET i == findIndex(products, id)
    IN  IF i = 0 THEN [error |-> ProductNotFoundError, found |-> <<>>]
        ELSE [error |-> NoError, found |-> <<products[i]>>]

\* ---- the inputs of addProduct
Codes == {"A1", "B2"}
Complete(code) ==
    [title |-> "Widget", description |-> "d", price |-> 10, category |-> "c",
     code |-> code, stock |-> 5, status |-> TRUE, thumbnails |-> <<>>]
\* the inputs: which fields of a complete input are left out, and which are
\* given a falsy value ("" or 0)
InputShapes ==
    { [absent |-> {}, falsy |-> {}],
      [absent |-> {}, falsy |-> {"price"}],
      [absent |-> {"stock"}, falsy |-> {}],
      [absent |-> {"code"}, falsy |-> {"title"}],
      [absent |-> {"description"}, falsy |-> {"price", "category"}],
      [absent |-> {"title", "description", "price", "category", "code", "stock"},
       falsy |-> {}] }
ProductInput(code, shape) ==
    [f \in DOMAIN Complete(code) \ shape.absent |->
        IF f \in shape.falsy
        THEN (IF f \in NumberFields THEN 0 ELSE "")
        ELSE Complete(code)[f]]

\* ---- the patches of updateProduct
PatchKinds == {"empty", "title+stock", "code", "id"}
Patch(kind) ==
    CASE kind = "empty" -> <<>>
      [] kind = "title+stock" -> [title |-> "Gadget", stock |-> 0]
      [] kind = "code" -> [code |-> "A1"]
      [] kind = "id" -> [id |-> 2]

ProductIds == 1..(MaxProducts + 1)

\* ---- lines 213-233.  Nothing is returned: the call resolves to undefined.
addProduct(product) ==
    LET missing == validateProductFields(product)
    IN  IF missing # <<>>
        THEN /\ last' = Call("addProduct", 0, product, MissingFieldsError, missing)
             /\ UNCHANGED <<productVars, cartVars, otherVars>>
        ELSE IF ~productsIsArray
        THEN /\ last' = Call("addProduct", 0, product, NotAFunctionError, <<>>)
             /\ UNCHANGED <<productVars, cartVars, otherVars>>
        ELSE IF validateDuplicateCode(product.code)
        THEN /\ last' = Call("addProduct", 0, product, DuplicateCodeError, <<>>)
             /\ UNCHANGED <<productVars, cartVars, otherVars>>
        ELSE /\ Len(productsAssigned) < MaxProducts
             /\ products' = Append(products, Product(productsNextId, product))
             /\ productsNextId' = productsNextId + 1
             /\ productsFile' = Written(productsFile, saveProducts(products'))
             /\ productsAssigned' = Append(productsAssigned, productsNextId)
             /\ last' = Call("addProduct", productsNextId, product,
                              AfterSave(productsFile), <<>>)
             /\ UNCHANGED <<productsIsArray, productsDeleted,
                            productsReloadedAfterDelete, cartVars, otherVars>>

\* ---- lines 266-282
updateProduct(id, updatedFields) ==
    LET productIndex == findIndex(products, id)
    IN  IF ~productsIsArray
        THEN /\ last' = Call("updateProduct", id, updatedFields, NotAFunctionError, <<>>)
             /\ UNCHANGED <<productVars, cartVars, otherVars>>
        ELSE IF productIndex = 0
        THEN /\ last' = Call("updateProduct", id, updatedFields, ProductNotFoundError, <<>>)
             /\ UNCHANGED <<productVars, cartVars, otherVars>>
        ELSE /\ products' =
                    [products EXCEPT ![productIndex] = Spread(@, updatedFields)]
             /\ productsFile' = Written(productsFile, saveProducts(products'))
             /\ last' = IF WriteFails(productsFile)
                        THEN Call("updateProduct", id, updatedFields, WriteError, <<>>)
                        ELSE Returning(Call("updateProduct", id, updatedFields, NoError, <<>>),
                                       products'[productIndex])
             /\ UNCHANGED <<productsIsArray, productsNextId, productsAssigned,
                            productsDeleted, productsReloadedAfterDelete, cartVars, otherVars>>

\* a delete that splices before it looks at the index: splice(-1, 1) takes the
\* last record away
deleteProductSpliceFirst(id) ==
    LET productIndex == findIndex(products, id)
    IN  IF ~productsIsArray
        THEN /\ last' = Call("deleteProduct", id, NoArg, NotAFunctionError, <<>>)
             /\ UNCHANGED <<productVars, cartVars, otherVars>>
        ELSE /\ products' = IF productIndex # 0 THEN Splice(products, productIndex)
                            ELSE SubSeq(products, 1, Len(products) - 1)
             /\ productsFile' = saveProducts(products')
             /\ productsDeleted' = IF productIndex # 0
                                   THEN productsDeleted \cup {products[productIndex].code}
                                   ELSE productsDeleted
             /\ last' = Call("deleteProduct", id, NoArg,
                              IF productIndex # 0 THEN NoError ELSE ProductNotFoundError, <<>>)
             /\ UNCHANGED <<productsIsArray, productsNextId, productsAssigned,
                            productsReloadedAfterDelete, cartVars, otherVars>>

\* ---- lines 289-298
deleteProduct(id) ==
    LET productIndex == findIndex(products, id)
    IN  IF ~productsIsArray
        THEN /\ last' = Call("deleteProduct", id, NoArg, NotAFunctionError, <<>>)
             /\ UNCHANGED <<productVars, cartVars, otherVars>>
        ELSE IF productIndex # 0
        THEN /\ products' = Splice(products, productIndex)
             /\ productsFile' = Written(productsFile, saveProducts(products'))
             /\ productsDeleted' = productsDeleted \cup {products[productIndex].code}
             /\ last' = Call("deleteProduct", id, NoArg, AfterSave(productsFile), <<>>)
             /\ UNCHANGED <<productsIsArray, productsNextId, productsAssigned,
                            productsReloadedAfterDelete, cartVars, otherVars>>
        ELSE /\ last' = Call("deleteProduct", id, NoArg, ProductNotFoundError, <<>>)
             /\ UNCHANGED <<productVars, cartVars, otherVars>>

\* ---- lines 136-174: new ProductManager(path), once its load has settled.
\* An object that is not an array has no length: line 168 is falsy, nothing is
\* thrown and this.products stays the object.
ProductManager ==
    LET loaded == LoadedFrom(productsFile)
    IN  /\ products' = loaded
        /\ productsIsArray' = ~ParsesToObject(productsFile)
        /\ productsNextId' = NextIdAfter(loaded)
        /\ productsReloadedAfterDelete' =
              (productsReloadedAfterDelete \/ productsDeleted # {})
        /\ last' = Call("ProductManager", 0, NoArg, NoError, <<>>)
        /\ UNCHANGED <<productsFile, productsAssigned, productsDeleted, cartVars, otherVars>>

\* ======================================================== CartManager
\* A JavaScript number is an integer here.  The numbers the model computes
\* stay far above -1000, which leaves values free for NaN, for the null that
\* JSON.stringify writes in place of NaN, and for undefined (an argument the
\* caller did not supply, a property JSON.stringify leaves out).
NaN == 0 - 1000
Null == 0 - 1001
Undefined == 0 - 1002

\* ToNumber(v) and a + b, as += computes it on numbers, null and undefined
ToNumber(v) == IF v = Undefined THEN NaN ELSE IF v = Null THEN 0 ELSE v
Plus(a, b) ==
    IF ToNumber(a) = NaN \/ ToNumber(b) = NaN THEN NaN ELSE ToNumber(a) + ToNumber(b)

\* a === b, for numbers and null
StrictEquals(a, b) == a # NaN /\ b # NaN /\ a = b

\* A string is the sequence of its characters.
Digits == <<"0", "1", "2", "3", "4", "5", "6", "7", "8", "9">>
IsDigit(c) == \E d \in 1..Len(Digits) : Digits[d] = c
DigitValue(c) == (CHOOSE d \in 1..Len(Digits) : Digits[d] = c) - 1

RECURSIVE ParseDigits(_, _)
\* the value of the digits that follow a prefix worth `acc`
ParseDigits(s, acc) ==
    IF s = <<>> \/ ~IsDigit(Head(s)) THEN acc
    ELSE ParseDigits(Tail(s), acc * 10 + DigitValue(Head(s)))

\* parseInt(string): the leading decimal digits, NaN when there is none
parseInt(s) ==
    IF s = <<>> \/ ~IsDigit(Head(s)) THEN NaN ELSE ParseDigits(s, 0)

\* new Cart(id, products)
Cart(id, lines) == [id |-> id, products |-> lines]

\* JSON.parse(JSON.stringify(carts)): NaN is written as null, a property that
\* holds undefined is left out
JsonNumber(n) == IF n = NaN THEN Null ELSE n
JsonLine(line) == [product |-> JsonNumber(line.product), quantity |-> JsonNumber(line.quantity)]
JsonCart(cart) ==
    [id |-> JsonNumber(cart.id),
     products |-> [k \in 1..Len(cart.products) |-> JsonLine(cart.products[k])]]
JsonCarts(records) == [i \in 1..Len(records) |-> JsonCart(records[i])]

\* the content saveCarts hands to writeFile (lines 59-61)
saveCarts(records) == FileOf(JsonCarts(records))

\* a lookup that falls back on the last cart when no cart has the id
getCartByIdOrLast(cartId) ==
    IF \E i \in 1..Len(carts) : carts[i].id = cartId
    THEN CHOOSE i \in 1..Len(carts) : carts[i].id = cartId
    ELSE Len(carts)

\* carts.find(cart => cart.id === cartId), as an index; 0 stands for undefined
getCartById(cartId) ==
    IF \E i \in 1..Len(carts) : StrictEquals(carts[i].id, cartId)
    THEN CHOOSE i \in 1..Len(carts) :
            /\ StrictEquals(carts[i].id, cartId)
            /\ \A j \in 1..(i - 1) : ~StrictEquals(carts[j].id, cartId)
    ELSE 0

\* cart.products.find(product => product.product === parseInt(productId)); 0 for undefined
findLine(lines, productId) ==
    IF \E k \in 1..Len(lines) : StrictEquals(lines[k].product, parseInt(productId))
    THEN CHOOSE k \in 1..Len(lines) :
            /\ StrictEquals(lines[k].product, parseInt(productId))
            /\ \A j \in 1..(k - 1) : ~StrictEquals(lines[j].product, parseInt(productId))
    ELSE 0

\* a merge that puts a new line first (unshift in place of push)
evaluateProductNewLineFirst(cart, productId, quantity) ==
    LET existingProduct == findLine(cart.products, productId)
    IN  IF existingProduct # 0
        THEN [cart EXCEPT !.products[existingProduct].quantity = Plus(@, quantity)]
        ELSE [cart EXCEPT !.products =
                  <<[product |-> parseInt(productId), quantity |-> quantity]>> \o @]

\* lines 112-118: the cart after the merge
evaluateProduct(cart, productId, quantity) ==
    LET existingProduct == findLine(cart.products, productId)
    IN  IF existingProduct # 0
        THEN [cart EXCEPT !.products[existingProduct].quantity = Plus(@, quantity)]
        ELSE [cart EXCEPT !.products =
                  Append(@, [product |-> parseInt(productId), quantity |-> quantity])]

\* ---- the arguments
CartIds == 1..(MaxCarts + 1)
ProductIdArgs == {<<"1">>, <<"2">>, <<"x">>}
Quantities == {0 - 1, 2, Undefined}

\* what addProductToCart was asked to add: one [cart, productId, quantity] per
\* cart id and productId, the quantity being the sum over the calls
NothingAdded == {}
Asked(history, cartId, productId) ==
    {e \in history : e.cart = cartId /\ e.productId = productId}
AddTo(history, cartId, productId, quantity) ==
    LET old == Asked(history, cartId, productId)
        before == IF old = {} THEN 0 ELSE (CHOOSE e \in old : TRUE).quantity
    IN  (history \ old) \cup
            {[cart |-> cartId, productId |-> productId,
              quantity |-> IF old = {} THEN quantity ELSE Plus(before, quantity)]}

\* what the carts of a file hold: the starting point of the instance that
\* loads them
AddedIn(records) ==
    UNION { UNION { { [cart |-> records[i].id, productId |-> p,
                       quantity |-> records[i].products[k].quantity] :
                      p \in {q \in ProductIdArgs :
                                records[i].products[k].product = parseInt(q)} } :
                    k \in 1..Len(records[i].products) } :
            i \in 1..Len(records) }

\* ---- lines 68-74.  saveCarts() is called and not awaited: its content is
\* computed at the call (the new cart is in it), the write lands later.
createCart ==
    IF ~cartsIsArray
    THEN /\ last' = Call("createCart", 0, NoArg, NotAFunctionError, <<>>)
         /\ UNCHANGED <<cartVars, productVars, otherVars>>
    ELSE /\ Len(cartsAssigned) < MaxCarts
         /\ carts' = Append(carts, Cart(cartsNextId, <<>>))
         /\ cartsWrites' = cartsWrites \cup {saveCarts(carts')}
         /\ cartsNextId' = cartsNextId + 1
         /\ cartsAssigned' = Append(cartsAssigned, cartsNextId)
         /\ added' = {e \in added : e.cart # cartsNextId}
         /\ last' = Returning(Call("createCart", cartsNextId, NoArg, NoError, <<>>),
                              Cart(cartsNextId, <<>>))
         /\ UNCHANGED <<cartsIsArray, cartsFile, cartsAdds, productVars, otherVars>>

\* ---- lines 82-84, called from outside: resolves to the cart, or to undefined
getCartByIdCall(cartId) ==
    LET cart == getCartById(cartId)
    IN  /\ last' = IF ~cartsIsArray
                   THEN Call("getCartById", cartId, NoArg, NotAFunctionError, <<>>)
                   ELSE IF cart # 0
                   THEN Returning(Call("getCartById", cartId, NoArg, NoError, <<>>),
                                  carts[cart])
                   ELSE Call("getCartById", cartId, NoArg, NoError, <<>>)
        /\ UNCHANGED <<cartVars, productVars, otherVars>>

\* ---- lines 94-121.  The save is awaited: the call returns when its write
\* has landed.  A write of createCart still in flight is a second writeFile
\* on the same file at the same time, which may leave the content of neither.
addProductToCart(cartId, productId, quantity) ==
    LET cart == getCartById(cartId)
    IN  IF ~cartsIsArray
        THEN /\ last' = Call("addProductToCart", cartId, NoArg, NotAFunctionError, <<>>)
             /\ UNCHANGED <<cartVars, productVars, otherVars>>
        ELSE IF cart # 0
        THEN /\ cartsAdds < MaxAdds
             /\ carts' = [carts EXCEPT ![cart] = evaluateProduct(@, productId, quantity)]
             /\ \/ cartsFile' = Written(cartsFile, saveCarts(carts'))
                \/ /\ cartsWrites # {}
                   /\ ~WriteFails(cartsFile)
                   /\ cartsFile' = NoFile
             /\ cartsAdds' = cartsAdds + 1
             /\ added' = AddTo(added, cartId, productId, quantity)
             /\ last' = IF WriteFails(cartsFile)
                        THEN Call("addProductToCart", cartId,
                                  [productId |-> productId, quantity |-> quantity],
                                  WriteError, <<>>)
                        ELSE Returning(Call("addProductToCart", cartId,
                                            [productId |-> productId, quantity |-> quantity],
                                            NoError, <<>>),
                                       carts'[cart])
             /\ UNCHANGED <<cartsIsArray, cartsNextId, cartsWrites, cartsAssigned,
                            productVars, otherVars>>
        ELSE /\ last' = Call("addProductToCart", cartId, NoArg, CartNotFoundError, <<>>)
             /\ UNCHANGED <<cartVars, productVars, otherVars>>

\* ---- lines 94-119 for a caller that has other calls running: the call up to
\* the await of its save.  The lookup and the change of the cart run without
\* suspension, JSON.stringify takes the content at that moment, the write is
\* in flight; the call returns when that write has landed.
addProductToCartUntilSave(cartId, productId, quantity) ==
    LET cart == getCartById(cartId)
    IN  IF ~cartsIsArray
        THEN /\ last' = Call("addProductToCart", cartId, NoArg, NotAFunctionError, <<>>)
             /\ UNCHANGED <<cartVars, productVars, otherVars>>
        ELSE IF cart # 0
        THEN /\ cartsAdds < MaxAdds
             /\ carts' = [carts EXCEPT ![cart] = evaluateProduct(@, productId, quantity)]
             /\ cartsWrites' = cartsWrites \cup {saveCarts(carts')}
             /\ cartsAdds' = cartsAdds + 1
             /\ added' = AddTo(added, cartId, productId, quantity)
             /\ last' = Call("addProductToCart: await saveCarts", cartId,
                              [productId |-> productId, quantity |-> quantity],
                              NoError, <<>>)
             /\ UNCHANGED <<cartsIsArray, cartsNextId, cartsFile, cartsAssigned,
                            productVars, otherVars>>
        ELSE /\ last' = Call("addProductToCart", cartId, NoArg, CartNotFoundError, <<>>)
             /\ UNCHANGED <<cartVars, productVars, otherVars>>

\* a write that takes the content of the collection when it lands, not when
\* saveCarts was called
writeFileSettlesWithMemory(content) ==
    /\ content \in cartsWrites
    /\ cartsWrites' = cartsWrites \ {content}
    /\ cartsFile' = Written(cartsFile, saveCarts(carts))
    /\ last' = Call("writeFile", 0, NoArg, NoError, <<>>)
    /\ UNCHANGED <<carts, cartsIsArray, cartsNextId, cartsAssigned, cartsAdds, added,
                   productVars, otherVars>>

\* ---- a writeFile that createCart started lands.  Writes in flight together
\* land in any order, and two of them at once may leave the content of neither.
writeFileSettles(content) ==
    /\ content \in cartsWrites
    /\ cartsWrites' = cartsWrites \ {content}
    /\ \/ cartsFile' = Written(cartsFile, content)
       \/ /\ cartsWrites' # {}
          /\ ~WriteFails(cartsFile)
          /\ cartsFile' = NoFile
    /\ last' = Call("writeFile", 0, NoArg, NoError, <<>>)
    /\ UNCHANGED <<carts, cartsIsArray, cartsNextId, cartsAssigned, cartsAdds, added,
                   productVars, otherVars>>

\* ---- lines 14-53: new CartManager(path), once its load has settled.  The
\* writes the previous instance started stay in flight.
CartManager ==
    LET loaded == LoadedFrom(cartsFile)
    IN  /\ carts' = loaded
        /\ cartsIsArray' = ~ParsesToObject(cartsFile)
        /\ cartsNextId' = NextIdAfter(loaded)
        /\ added' = AddedIn(loaded)
        /\ last' = Call("CartManager", 0, NoArg, NoError, <<>>)
        /\ UNCHANGED <<cartsFile, cartsWrites, cartsAssigned, cartsAdds, productVars, otherVars>>

\* ---- the constructor and initialize taken apart.  The constructor returns
\* with the readFile of initialize in flight; the file is read at some moment,
\* and initialize goes on with what was read at some later moment; calls on
\* the new instance may run before, between and after.
Loaded == [phase |-> "loaded"]
Reading == [phase |-> "reading"]
Read(file) == [phase |-> "read", file |-> file]

\* lines 14-36
CartManagerConstructor ==
    /\ carts' = <<>>
    /\ cartsIsArray' = TRUE
    /\ cartsNextId' = 1
    /\ cartsLoading' = Reading
    /\ added' = NothingAdded
    /\ last' = Call("constructor", 0, NoArg, NoError, <<>>)
    /\ UNCHANGED <<cartsFile, cartsWrites, cartsAssigned, cartsAdds, dbCart, tabs,
                   productVars>>

\* line 45: the file is read
readFileSettles ==
    /\ cartsLoading = Reading
    /\ cartsLoading' = Read(cartsFile)
    /\ last' = Call("readFile", 0, NoArg, NoError, <<>>)
    /\ UNCHANGED <<cartVars, productVars, dbCart, tabs>>

\* lines 46-52: initialize goes on.  nextId is assigned only for an array that
\* is not empty.
initialize ==
    /\ cartsLoading.phase = "read"
    /\ carts' = LoadedFrom(cartsLoading.file)
    /\ cartsIsArray' = ~ParsesToObject(cartsLoading.file)
    /\ cartsNextId' = IF Len(carts') > 0 THEN NextIdAfter(carts') ELSE cartsNextId
    /\ cartsLoading' = Loaded
    /\ added' = AddedIn(carts')
    /\ last' = Call("initialize", 0, NoArg, NoError, <<>>)
    /\ UNCHANGED <<cartsFile, cartsWrites, cartsAssigned, cartsAdds, dbCart, tabs,
                   productVars>>

\* ===================================================== routes and browser
\* The routes of routes/carts.routes.js work on documents of cartModel and
\* productModel.  One cart document and two product documents are stored; of
\* the cart document the model keeps the products array, each line a record
\* [id_prod, quantity].  The awaits inside one route are taken as one step.
DbCartId == 1
CartIdParams == {1, 2}
DbProducts == {<<"1">>, <<"2">>}
ProductIdParams == {<<"1">>, <<"2">>, <<"3">>}
BodyQuantities == {1, 2, 3}
CartNotFoundStatus == "404 Cart Not Found"
ProductNotFoundStatus == "404 Product Not Found"
ProductNotInCartStatus == "404 Product not found in cart"

\* cart.products.findIndex(item => item.id_prod == pid), 0 for -1
findIndexOfProduct(lines, pid) ==
    IF \E k \in 1..Len(lines) : lines[k].id_prod = pid
    THEN CHOOSE k \in 1..Len(lines) :
             /\ lines[k].id_prod = pid
             /\ \A j \in 1..(k - 1) : lines[j].id_prod # pid
    ELSE 0

\* POST /:cid/product/:pid, lines 137-143: the products of the cart after it
postedProducts(lines, pid, quantity) ==
    LET index == findIndexOfProduct(lines, pid)
    IN  IF index # 0
        THEN [lines EXCEPT ![index].quantity = quantity]
        ELSE Append(lines, [id_prod |-> pid, quantity |-> quantity])

\* PUT /:cid/products/:pid, lines 212-214: the products of the cart after it
putProducts(lines, pid, quantity) ==
    [lines EXCEPT ![findIndexOfProduct(lines, pid)].quantity = quantity]

\* the status of POST /:cid/product/:pid on the stored documents
postStatus(cid, pid) ==
    IF cid # DbCartId THEN CartNotFoundStatus
    ELSE IF pid \notin DbProducts THEN ProductNotFoundStatus
    ELSE NoError

\* the status of PUT /:cid/products/:pid on the stored documents
putStatus(lines, cid, pid) ==
    IF cid # DbCartId THEN CartNotFoundStatus
    ELSE IF findIndexOfProduct(lines, pid) = 0 THEN ProductNotInCartStatus
    ELSE NoError

\* ---- cartRouter.post('/:cid/product/:pid'), lines 127-156
cartRouterPost(cid, pid, quantity) ==
    /\ dbCart' = IF postStatus(cid, pid) = NoError
                 THEN postedProducts(dbCart, pid, quantity)
                 ELSE dbCart
    /\ last' = Call("POST /:cid/product/:pid", cid,
                    [productId |-> pid, quantity |-> quantity], postStatus(cid, pid), <<>>)
    /\ UNCHANGED <<cartVars, productVars, cartsLoading, tabs>>

\* ---- cartRouter.put('/:cid/products/:pid'), lines 202-224
cartRouterPut(cid, pid, quantity) ==
    /\ dbCart' = IF putStatus(dbCart, cid, pid) = NoError
                 THEN putProducts(dbCart, pid, quantity)
                 ELSE dbCart
    /\ last' = Call("PUT /:cid/products/:pid", cid,
                    [productId |-> pid, quantity |-> quantity],
                    putStatus(dbCart, cid, pid), <<>>)
    /\ UNCHANGED <<cartVars, productVars, cartsLoading, tabs>>

\* ---- public/js/cart.js: the pages open on the stored cart, each with one
\* add-to-cart button per stored product
Tabs == {1, 2}
Buttons == DbProducts
MaxClicks == 3
\* a tab between two clicks
Idle == [pc |-> "idle", productId |-> <<>>, cart |-> <<>>,
         alerts |-> [p \in Buttons |-> 0]]
\* the clicks begun so far: those that ended with the success alert and those
\* waiting for their request
Alerts(p) == tabs[1].alerts[p] + tabs[2].alerts[p]
Clicks ==
    Alerts(<<"1">>) + Alerts(<<"2">>)
        + (IF tabs[1].pc = "idle" THEN 0 ELSE 1) + (IF tabs[2].pc = "idle" THEN 0 ELSE 1)

\* lines 114-117: the click up to the answer of getCartProducts (lines 80-92,
\* GET /:cid), which is the cart as stored at that moment
addToCartClick(t, productId) ==
    /\ tabs[t].pc = "idle"
    /\ Clicks < MaxClicks
    /\ tabs' = [tabs EXCEPT ![t] = [@ EXCEPT !.pc = "has cart", !.productId = productId,
                                               !.cart = dbCart]]
    /\ last' = Call("GET /:cid", DbCartId, NoArg, NoError, <<>>)
    /\ UNCHANGED <<cartVars, productVars, cartsLoading, dbCart>>

\* lines 119-131: the line is looked up in the cart the tab holds; if found
\* updateProductInCart (lines 62-77, the PUT route) with its quantity + 1,
\* else addProductToCart (lines 44-59, the POST route) with 1; the success
\* alert if the response is ok, the error alert if not
addToCartRequest(t) ==
    LET productId == tabs[t].productId
        existingProduct == findIndexOfProduct(tabs[t].cart, productId)
        newQuantity == tabs[t].cart[existingProduct].quantity + 1
        status == IF existingProduct # 0
                  THEN putStatus(dbCart, DbCartId, productId)
                  ELSE postStatus(DbCartId, productId)
    IN  /\ tabs[t].pc = "has cart"
        /\ dbCart' = IF status # NoError THEN dbCart
                     ELSE IF existingProduct # 0
                     THEN putProducts(dbCart, productId, newQuantity)
                     ELSE postedProducts(dbCart, productId, 1)
        /\ tabs' = [tabs EXCEPT ![t] =
                       [Idle EXCEPT !.alerts =
                           IF status = NoError
                           THEN [tabs[t].alerts EXCEPT ![productId] = @ + 1]
                           ELSE tabs[t].alerts]]
        /\ last' = Call(IF existingProduct # 0 THEN "PUT /:cid/products/:pid"
                        ELSE "POST /:cid/product/:pid",
                        DbCartId,
                        [productId |-> productId,
                         quantity |-> IF existingProduct # 0 THEN newQuantity ELSE 1],
                        status, <<>>)
        /\ UNCHANGED <<cartVars, productVars, cartsLoading>>

\* ============================================================ behaviours
\* Both stores right after construction, their load settled, on a products
\* file and a carts file of the given sets; no request has reached the routes.
Constructed(productFiles, cartFiles) ==
    /\ productsFile \in productFiles
    /\ products = LoadedFrom(productsFile)
    /\ productsNextId = NextIdAfter(products)
    /\ productsIsArray = ~ParsesToObject(productsFile)
    /\ cartsFile \in cartFiles
    /\ carts = LoadedFrom(cartsFile)
    /\ cartsNextId = NextIdAfter(carts)
    /\ cartsIsArray = ~ParsesToObject(cartsFile)
    /\ cartsWrites = {}
    /\ cartsLoading = Loaded
    /\ dbCart = <<>>
    /\ tabs = [t \in Tabs |-> Idle]
    /\ last = Call("init", 0, NoArg, NoError, <<>>)
    /\ productsAssigned = <<>>
    /\ productsDeleted = {}
    /\ productsReloadedAfterDelete = FALSE
    /\ cartsAssigned = <<>>
    /\ cartsAdds = 0
    /\ added = AddedIn(carts)

\* on files the stores leave behind or find on a first run: missing, or the
\* empty array
Init == Constructed({NoFile, FileOf(<<>>)}, {NoFile, FileOf(<<>>)})

\* the cart store on a file that holds one empty cart
OneCartInit == Constructed({NoFile}, {FileOf(<<Cart(1, <<>>)>>)})

\* on files that may refuse to be written
\* a cart store that starts from a file of two empty carts
TwoCartsInit == Constructed({NoFile}, {FileOf(<<Cart(1, <<>>), Cart(2, <<>>)>>)})

DiskInit ==
    Constructed({NoFile, ReadOnly(NoFile)}, {NoFile, FileOf(<<>>), ReadOnly(FileOf(<<>>))})

\* on any file: also one that holds {}, and one whose records are not in the
\* order of their ids
LoadInit ==
    Constructed({NoFile, FileOf(<<>>), ObjectFile},
                {NoFile, FileOf(<<>>), ObjectFile,
                 FileOf(<<Cart(2, <<>>), Cart(1, <<>>)>>)})

ProductNext ==
    \/ \E code \in Codes, shape \in InputShapes :
          addProduct(ProductInput(code, shape))
    \/ \E id \in ProductIds, kind \in PatchKinds : updateProduct(id, Patch(kind))
    \/ \E id \in ProductIds : deleteProduct(id)
    \/ ProductManager

CartNext ==
    \/ createCart
    \/ \E cartId \in CartIds, productId \in ProductIdArgs, quantity \in Quantities :
          addProductToCart(cartId, productId, quantity)
    \/ \E cartId \in CartIds : getCartByIdCall(cartId)
    \/ \E content \in cartsWrites : writeFileSettles(content)
    \/ CartManager

\* the calls on one CartManager instance
CartCallsNext ==
    \/ createCart
    \/ \E cartId \in CartIds, productId \in ProductIdArgs, quantity \in Quantities :
          addProductToCart(cartId, productId, quantity)

\* addProductToCart calls, each one awaited
AddNext ==
    \E cartId \in CartIds, productId \in ProductIdArgs, quantity \in Quantities :
        addProductToCart(cartId, productId, quantity)

\* requests to the two routes that change a line of the stored cart
RouteNext ==
    \/ \E cid \in CartIdParams, pid \in ProductIdParams, quantity \in BodyQuantities :
          cartRouterPost(cid, pid, quantity)
    \/ \E cid \in CartIdParams, pid \in ProductIdParams, quantity \in BodyQuantities :
          cartRouterPut(cid, pid, quantity)

\* clicks on the add-to-cart buttons of the tabs
BrowserNext ==
    \/ \E t \in Tabs, productId \in Buttons : addToCartClick(t, productId)
    \/ \E t \in Tabs : addToCartRequest(t)

\* the calls on one CartManager instance and the landing of its writes
CartWritesNext ==
    \/ createCart
    \/ \E cartId \in CartIds, productId \in ProductIdArgs, quantity \in Quantities :
          addProductToCart(cartId, productId, quantity)
    \/ \E content \in cartsWrites : writeFileSettles(content)

\* calls on one CartManager instance that do not wait for one another
ConcurrentNext ==
    \/ createCart
    \/ \E cartId \in CartIds, productId \in ProductIdArgs, quantity \in Quantities :
          addProductToCartUntilSave(cartId, productId, quantity)
    \/ \E content \in cartsWrites : writeFileSettles(content)

\* addProductToCart calls that do not wait for one another
OneCartNext ==
    \/ \E cartId \in CartIds, productId \in ProductIdArgs, quantity \in Quantities :
          addProductToCartUntilSave(cartId, productId, quantity)
    \/ \E content \in cartsWrites : writeFileSettles(content)

\* the cart store with its constructor and its load as separate steps
StartupNext ==
    \/ CartManagerConstructor
    \/ readFileSettles
    \/ initialize
    \/ createCart
    \/ \E content \in cartsWrites : writeFileSettles(content)

Next == ProductNext \/ CartNext

\* the product store alone, the cart store alone, and both
ProductSpec == Init /\ [][ProductNext]_vars
CartSpec == Init /\ [][CartNext]_vars
\* one CartManager instance from its construction on, never re-constructed
CartCallsSpec == Init /\ [][CartCallsNext]_vars
Spec == Init /\ [][Next]_vars
\* one CartManager instance whose callers do not wait for one another
ConcurrentSpec == Init /\ [][ConcurrentNext]_vars
\* the same on a store that holds one cart and creates no other
OneCartSpec == OneCartInit /\ [][OneCartNext]_vars
\* the cart store, calls arriving while it loads
StartupSpec == Init /\ [][StartupNext]_vars
\* the cart store on a disk that may refuse writes
TwoCartsSpec == TwoCartsInit /\ [][AddNext]_vars

RouteSpec == TwoCartsInit /\ [][RouteNext]_vars

BrowserSpec == TwoCartsInit /\ [][BrowserNext]_vars

DiskSpec == DiskInit /\ [][CartWritesNext]_vars
\* the product store constructed on any file
LoadSpec == LoadInit /\ [][ProductNext]_vars

\* ================================================================ claims
NoDuplicates(seq) == \A i, j \in 1..Len(seq) : i # j => seq[i] # seq[j]
IdsOf(records) == [i \in 1..Len(records) |-> records[i].id]
LinesFor(cart, productId) ==
    SelectSeq(cart.products, LAMBDA line : line.product = parseInt(productId))

\* C1: on a store that starts from an empty or missing file, the k-th
\* successful create gets id k (ids start at 1, rise by one, never repeat, and
\* a failed create takes none), also when the store is re-constructed from its
\* file between creates, as long as no delete came before a re-construction.
C1_KthCreateGetsIdK ==
    /\ ~productsReloadedAfterDelete =>
          \A k \in 1..Len(productsAssigned) : productsAssigned[k] = k
    /\ \A k \in 1..Len(cartsAssigned) : cartsAssigned[k] = k

\* C2: after any sequence of addProductToCart calls, a cart holds exactly one
\* line per distinct productId added to it, with the sum of the quantities
\* added for that productId, whatever the order of the calls.
C2_OneLinePerProductWithSum ==
    \A i \in 1..Len(carts) : \A p \in ProductIdArgs :
        LET lines == LinesFor(carts[i], p)
            asked == Asked(added, carts[i].id, p)
        IN  IF asked # {}
            THEN Len(lines) = 1 /\ \A e \in asked : lines[1].quantity = e.quantity
            ELSE lines = <<>>

\* C3: no cart ever holds two line items with the same product value,
\* whatever productId arguments addProductToCart was given.
C3_LineProductsUnique ==
    \A i \in 1..Len(carts) :
        \A k, j \in 1..Len(carts[i].products) :
            k # j => carts[i].products[k].product # carts[i].products[j].product

\* C4: no two products of the collection ever have the same code, whatever
\* addProduct, updateProduct and deleteProduct calls were made.
C4_CodesUnique ==
    \A i, j \in 1..Len(products) : i # j => products[i].code # products[j].code

\* C5: addProduct with valid fields fails with the duplicate-code error exactly
\* when a product of the collection has that code, and once deleteProduct has
\* removed the product with a code, addProduct with that code succeeds (no
\* product of the collection has the code any more).
C5_DuplicateCodeUntilDeleted ==
    [][ /\ (last'.op = "addProduct" /\ last'.error # MissingFieldsError) =>
              /\ last'.error = DuplicateCodeError
                    <=> \E i \in 1..Len(products) : products[i].code = last'.arg.code
              /\ last'.error \in {DuplicateCodeError, NoError}
        /\ (last'.op = "deleteProduct" /\ last'.error = NoError) =>
              \A j \in 1..Len(products') :
                  products'[j].code # products[findIndex(products, last'.id)].code
      ]_vars

\* C6: addProduct fails with the validation error if and only if one of title,
\* description, price, category, code, stock is absent or falsy (a price or a
\* stock of 0 is); the error lists exactly those fields, in that order; and it
\* is the validation error that an input both incomplete and duplicate gets.
C6_Order == <<"title", "description", "price", "category", "code", "stock">>
C6_AbsentOrFalsy(input) ==
    {C6_Order[k] : k \in {n \in 1..Len(C6_Order) :
        \/ C6_Order[n] \notin DOMAIN input
        \/ (C6_Order[n] \in {"price", "stock"} /\ input[C6_Order[n]] = 0)
        \/ (C6_Order[n] \notin {"price", "stock"} /\ input[C6_Order[n]] = "")}}
C6_Before(f, g) ==
    \E a, b \in 1..Len(C6_Order) : a < b /\ C6_Order[a] = f /\ C6_Order[b] = g
C6_ValidationNamesMissingFields ==
    last.op = "addProduct" =>
        /\ last.error = MissingFieldsError <=> C6_AbsentOrFalsy(last.arg) # {}
        /\ {last.missing[k] : k \in 1..Len(last.missing)} = C6_AbsentOrFalsy(last.arg)
        /\ \A k \in 1..(Len(last.missing) - 1) :
              C6_Before(last.missing[k], last.missing[k + 1])
\* the validation error for an input without description, with price 0 and
\* category "", whose code a product of the collection has
C6_Witness ==
    /\ last.op = "addProduct"
    /\ last.error = MissingFieldsError
    /\ last.missing = <<"description", "price", "category">>
    /\ \E i \in 1..Len(products) : products[i].code = last.arg.code

\* C7: updateProduct(id, patch) on an existing id leaves a record with the
\* patch's value in every field of the patch and the old value in every other
\* field, at the same position, changes no other record and not nextId; on an
\* absent id it fails with not-found and changes nothing.
C7_UpdateOverwritesPatchOnly ==
    [][ last'.op = "updateProduct" =>
            IF \E i \in 1..Len(products) : products[i].id = last'.id
            THEN LET at == CHOOSE i \in 1..Len(products) :
                              /\ products[i].id = last'.id
                              /\ \A j \in 1..(i - 1) : products[j].id # last'.id
                     patch == last'.arg
                 IN  /\ last'.error = NoError
                     /\ Len(products') = Len(products)
                     /\ \A j \in 1..Len(products) : j # at => products'[j] = products[j]
                     /\ DOMAIN products'[at] = DOMAIN products[at] \cup DOMAIN patch
                     /\ \A f \in DOMAIN patch : products'[at][f] = patch[f]
                     /\ \A f \in DOMAIN products[at] \ DOMAIN patch :
                            products'[at][f] = products[at][f]
                     /\ productsNextId' = productsNextId
            ELSE /\ last'.error = ProductNotFoundError
                 /\ UNCHANGED <<products, productsNextId, productsFile>>
      ]_vars
\* the second of two products patched in title and stock, the first left alone
C7_Witness ==
    /\ last.op = "updateProduct"
    /\ last.error = NoError
    /\ last.id = 2
    /\ DOMAIN last.arg = {"title", "stock"}
    /\ Len(products) = 2
    /\ products[1] = Product(1, Complete("A1"))
    /\ products[2] = [Product(2, Complete("B2")) EXCEPT !.title = "Gadget", !.stock = 0]

\* C8: after a successful deleteProduct(id), getProductById(id) fails with
\* not-found and the other products keep their order; deleteProduct of an id
\* that is not in the collection fails with not-found, so deleting the same id
\* a second time fails.
C8_DeletedIdIsGone ==
    [][ last'.op = "deleteProduct" =>
            IF \E i \in 1..Len(products) : products[i].id = last'.id
            THEN /\ last'.error = NoError
                 /\ \A j \in 1..Len(products') : products'[j].id # last'.id
                 /\ \E at \in 1..Len(products) :
                        /\ products[at].id = last'.id
                        /\ products' = SubSeq(products, 1, at - 1)
                                         \o SubSeq(products, at + 1, Len(products))
            ELSE /\ last'.error = ProductNotFoundError
                 /\ UNCHANGED <<products, productsNextId, productsFile>>
      ]_vars

\* C9: no operation of a store changes the id of a record: a product or cart
\* that is in the collection before and after a call has the same id.
C9_IdNeverChanges ==
    [][ /\ last'.op \in {"addProduct", "updateProduct"} =>
              SubSeq(IdsOf(products'), 1, Len(products)) = IdsOf(products)
        /\ last'.op = "deleteProduct" =>
              \/ IdsOf(products') = IdsOf(products)
              \/ \E at \in 1..Len(products) :
                    IdsOf(products') = SubSeq(IdsOf(products), 1, at - 1)
                                         \o SubSeq(IdsOf(products), at + 1, Len(products))
        /\ last'.op \in {"createCart", "addProductToCart"} =>
              SubSeq(IdsOf(carts'), 1, Len(carts)) = IdsOf(carts)
      ]_vars

\* C10: an id given to a record is never given to a record created later, also
\* after the first record was deleted and the store re-constructed from its file.
C10_IdNeverReused ==
    /\ NoDuplicates(productsAssigned)
    /\ NoDuplicates(cartsAssigned)

\* C11: a successful addProduct gives its caller the record it created, which
\* carries the id that was assigned and is the last record of the collection.
C11_AddProductReturnsRecord ==
    (last.op = "addProduct" /\ last.error = NoError) =>
        /\ Len(last.returned) = 1
        /\ last.returned[1] = products[Len(products)]
        /\ last.returned[1].id = last.id

\* C12: getCartById gives its caller the cart with the id when there is one,
\* and fails with an error when there is none: it never resolves to a value
\* that is not a cart.
C12_GetCartByIdFailsWhenAbsent ==
    last.op = "getCartById" =>
        IF \E i \in 1..Len(carts) : carts[i].id = last.id
        THEN /\ last.error = NoError
             /\ Len(last.returned) = 1
             /\ last.returned[1].id = last.id
        ELSE last.error # NoError

\* C13: addProductToCart with a cartId that no cart has fails with an error
\* and leaves every cart, nextId and the backing file as they were: no cart is
\* created and no line is added anywhere.
C13_AddToAbsentCartChangesNothing ==
    [][ (/\ last'.op = "addProductToCart"
         /\ \A i \in 1..Len(carts) : carts[i].id # last'.id) =>
            /\ last'.error # NoError
            /\ UNCHANGED <<carts, cartsIsArray, cartsNextId, cartsFile, cartsWrites>>
      ]_vars
\* the call failed on cart id 3 while carts 1 and 2 exist, one with a line
C13_Witness ==
    /\ last.op = "addProductToCart"
    /\ last.error = CartNotFoundError
    /\ last.id = 3
    /\ IdsOf(carts) = <<1, 2>>
    /\ \E i \in 1..Len(carts) : carts[i].products # <<>>

\* C14: when the caller gives addProductToCart no quantity, 1 is used: a new
\* line gets quantity 1, and the quantity of an existing line grows by 1.
C14_QuantityDefaultsToOne ==
    [][ (/\ last'.op = "addProductToCart"
         /\ last'.error = NoError
         /\ last'.arg.quantity = Undefined) =>
            LET at == CHOOSE i \in 1..Len(carts) : carts[i].id = last'.id
                before == LinesFor(carts[at], last'.arg.productId)
                after == LinesFor(carts'[at], last'.arg.productId)
            IN  /\ Len(after) = 1
                /\ after[1].quantity =
                      IF before = <<>> THEN 1 ELSE before[1].quantity + 1
      ]_vars

\* C15: once the save of the last mutation has completed (the file holds what
\* it wrote and no write is in flight), a store constructed on the same file
\* loads a collection with the same records, field values and order as the
\* collection in memory before.
C15_ReloadGivesTheSameCollection ==
    [][ /\ (/\ last'.op = "CartManager"
            /\ cartsWrites = {}
            /\ cartsFile = saveCarts(carts)) =>
               carts' = carts
        /\ (/\ last'.op = "ProductManager"
            /\ productsFile = saveProducts(products)) =>
               products' = products
      ]_vars

\* C16: a store whose load failed (the file is missing, does not parse, or
\* does not hold an array of records) starts with an empty collection, and then
\* takes calls as usual: the first create succeeds and gets id 1.
C16_FailedLoadStartsEmpty ==
    /\ [](/\ (last.op \in {"init", "ProductManager"} /\ ~ParsesToArray(productsFile)) =>
               (products = <<>> /\ productsIsArray /\ productsNextId = 1)
          /\ (last.op \in {"init", "CartManager"} /\ ~ParsesToArray(cartsFile)) =>
               (carts = <<>> /\ cartsIsArray /\ cartsNextId = 1))
    /\ [][ (/\ last.op \in {"init", "ProductManager"}
             /\ ~ParsesToArray(productsFile)
             /\ last'.op = "addProduct"
             /\ last'.error # MissingFieldsError) =>
                (last'.error = NoError /\ last'.id = 1)
          ]_vars

\* C17: when a mutating call (addProduct, updateProduct, deleteProduct,
\* createCart, addProductToCart) has returned without error, the backing file
\* holds the whole collection in memory, that call's change included.
C17_WriteThrough ==
    /\ (last.op \in {"addProduct", "updateProduct", "deleteProduct"}
            /\ last.error = NoError) =>
          productsFile = saveProducts(products)
    /\ (last.op \in {"createCart", "addProductToCart"} /\ last.error = NoError) =>
          cartsFile = saveCarts(carts)

\* C18: a call that fails with a validation, duplicate-code or not-found error
\* leaves the collections, nextId and the backing files exactly as they were,
\* so that what any later call does is what it would have done without it.
\* (The product store's three errors; the failure of addProductToCart on an
\* absent cart is C13.)
C18_FailedCallChangesNothing ==
    [][ last'.error \in {MissingFieldsError, DuplicateCodeError, ProductNotFoundError} =>
            UNCHANGED <<products, productsIsArray, productsNextId, productsFile,
                        carts, cartsIsArray, cartsNextId, cartsFile, cartsWrites>>
      ]_vars
\* a duplicate-code failure on a store of two products, a third create still
\* to get id 3
C18_Witness ==
    /\ last.op = "addProduct"
    /\ last.error = DuplicateCodeError
    /\ IdsOf(products) = <<1, 2>>
    /\ productsNextId = 3
    /\ productsFile = saveProducts(products)

\* C19: every line of every cart has a quantity greater than 0, whatever
\* integer quantities (positive, zero or negative) addProductToCart was given.
\* (A quantity that is not a number comes from a call without quantity, which
\* is C14.)
C19_QuantitiesPositive ==
    \A i \in 1..Len(carts) : \A k \in 1..Len(carts[i].products) :
        carts[i].products[k].quantity \notin {NaN, Null, Undefined} =>
            carts[i].products[k].quantity > 0

\* C20: every line's product is the id of a product that is in the product
\* collection.
C20_LinesReferToProducts ==
    \A i \in 1..Len(carts) : \A k \in 1..Len(carts[i].products) :
        \E j \in 1..Len(products) : products[j].id = carts[i].products[k].product

Max(S) == CHOOSE x \in S : \A y \in S : y <= x

\* C21: after a load that succeeded, nextId is the largest id of the loaded
\* records plus 1, in whatever order the records are, and 1 for an empty
\* collection.
C21_NextIdIsMaxPlusOne ==
    /\ (last.op \in {"init", "ProductManager"} /\ ParsesToArray(productsFile)) =>
          productsNextId =
              IF productsFile.data = <<>> THEN 1
              ELSE Max({productsFile.data[i].id : i \in 1..Len(productsFile.data)}) + 1
    /\ (last.op \in {"init", "CartManager"} /\ ParsesToArray(cartsFile)) =>
          cartsNextId =
              IF cartsFile.data = <<>> THEN 1
              ELSE Max({cartsFile.data[i].id : i \in 1..Len(cartsFile.data)}) + 1

\* C22: when the file write of a mutating call fails, the call reports the
\* I/O error to its caller, and what it did in memory stays: this for every
\* mutating call of the two stores, createCart too.
C22_WriteFailureIsReported ==
    [][ /\ (/\ last'.op \in {"addProduct", "updateProduct", "deleteProduct"}
            /\ WriteFails(productsFile)
            /\ last'.error \notin {MissingFieldsError, DuplicateCodeError,
                                    ProductNotFoundError, NotAFunctionError}) =>
               /\ last'.error = WriteError
               /\ productsFile' = productsFile
               /\ last'.op = "addProduct" =>
                     (Len(products') = Len(products) + 1
                        /\ productsNextId' = productsNextId + 1)
        /\ (/\ last'.op \in {"createCart", "addProductToCart"}
            /\ WriteFails(cartsFile)
            /\ last'.error \notin {CartNotFoundError, NotAFunctionError}) =>
               /\ last'.error = WriteError
               /\ cartsFile' = cartsFile
               /\ last'.op = "createCart" =>
                     (Len(carts') = Len(carts) + 1 /\ cartsNextId' = cartsNextId + 1)
      ]_vars

\* C23: two addProductToCart calls on the same cart and product that do not
\* wait for one another can lose an update in the file.  Each write that lands
\* leaves in the file the content taken when its save was called (or nothing
\* that parses, when it overlaps another write), never the collection as it is
\* when it lands; the writes land in any order, so the one that lands last may
\* carry the older content.
C23_WritesLandWithTheirSnapshot ==
    [][ last'.op = "writeFile" =>
            /\ cartsFile' \in cartsWrites \cup {NoFile}
            /\ cartsWrites' \subseteq cartsWrites
            /\ carts' = carts
      ]_vars
\* both calls (quantity 2 each, product 1, cart 1) have completed, the cart in
\* memory holds 4 and the cart in the file holds 2
C23_Witness ==
    /\ cartsWrites = {}
    /\ cartsAdds = 2
    /\ added = {[cart |-> 1, productId |-> <<"1">>, quantity |-> 4]}
    /\ carts = <<Cart(1, <<[product |-> 1, quantity |-> 4]>>)>>
    /\ cartsFile = FileOf(<<Cart(1, <<[product |-> 1, quantity |-> 2]>>)>>)

\* C24: once every mutating call started on a store and every write of theirs
\* has completed, the file holds the collection that is in memory, in whatever
\* order the writes landed.
C24_FileCatchesUp ==
    (cartsWrites = {} /\ cartsAssigned # <<>>) => cartsFile = saveCarts(carts)

\* C26: in memory no update is lost: whatever addProductToCart calls were
\* started without waiting for one another, and however their writes land,
\* the cart holds, for every productId added to it, one line with the sum of
\* the quantities added, and no other line.
C26_NoUpdateLostInMemory ==
    /\ \A e \in added : \E i \in 1..Len(carts) :
            /\ carts[i].id = e.cart
            /\ LET lines == LinesFor(carts[i], e.productId)
               IN  Len(lines) = 1 /\ lines[1].quantity = e.quantity
    /\ \A i \in 1..Len(carts) : \A k \in 1..Len(carts[i].products) :
            \E e \in added :
                /\ e.cart = carts[i].id
                /\ parseInt(e.productId) = carts[i].products[k].product

\* C25: the constructor does not wait for the load it starts; whatever calls
\* run while the load is under way, a record that a create has put in the
\* collection stays in it, and the ids of the collection stay distinct.
C25_LoadKeepsCreatedRecords ==
    /\ [][ last'.op = "initialize" =>
              \A i \in 1..Len(carts) : \E j \in 1..Len(carts') : carts'[j].id = carts[i].id
         ]_vars
    /\ [](NoDuplicates(IdsOf(carts)))

\* C27: nextId is greater than the id of every record of the collection, after
\* any calls and after any reload from a file the store wrote.
C27_NextIdAboveEveryId ==
    /\ \A i \in 1..Len(products) : products[i].id < productsNextId
    /\ \A i \in 1..Len(carts) : carts[i].id < cartsNextId

FileLines(lines) ==
    [k \in 1..Len(lines) |->
        [product |-> parseInt(lines[k].id_prod), quantity |-> lines[k].quantity]]

\* C29: the POST /:cid/product/:pid route and CartManager.addProductToCart are
\* the same operation: an addition of (product, quantity) to a stored cart
\* leaves the lines that evaluateProduct leaves on the same cart, so a product
\* already in the cart has its quantity increased by the added quantity.
C29_RouteAddsLikeTheManager ==
    [][ (last'.op = "POST /:cid/product/:pid" /\ last'.error = NoError) =>
            FileLines(dbCart') =
                evaluateProduct(Cart(DbCartId, FileLines(dbCart)),
                                last'.arg.productId, last'.arg.quantity).products
      ]_vars

\* the stored quantity of a product in the cart, 0 without a line
StoredQuantity(p) ==
    IF findIndexOfProduct(dbCart, p) = 0 THEN 0
    ELSE dbCart[findIndexOfProduct(dbCart, p)].quantity

\* C30: every click that ends with the success alert raises the stored
\* quantity of its product by 1: on a cart that starts empty the stored quantity
\* of a product is the number of success alerts for it, whatever the order of
\* the tabs' requests.
C30_QuantityCountsSuccessfulClicks ==
    \A p \in Buttons : StoredQuantity(p) = Alerts(p)

====
